---- MODULE Spec2Model ----
(***************************************************************************)
(* Model of yellowbrick/base.py: the stub visualization hierarchy          *)
(* (BaseVisualization, FeatureVisualization, ModelVisualization) and the   *)
(* MultiModelMixin adapter (__init__, generate_subplots, predict).         *)
(***************************************************************************)
EXTENDS Integers, Sequences, FiniteSets, TLC

VARIABLES
    status,      \* "new" | "constructed" | "raised": outcome of MultiModelMixin.__init__
    argModels,   \* the `models` argument __init__ was called with
    argKwargs,   \* the **kwargs __init__ was called with
    ctorError,   \* exception type raised by __init__, "none" otherwise
    models,      \* self.models
    names,       \* self.names
    figs,        \* number of figures pyplot has allocated (global plotting state)
    subplots,    \* return values of the generate_subplots calls, in call order
    gens,        \* generator objects returned by predict, in creation order
    cvCalls,     \* per generator, the cross_val_predict calls made for it, in call order
    stubLog      \* log of calls made to the base-class stubs

vars == <<status, argModels, argKwargs, ctorError, models, names,
          figs, subplots, gens, cvCalls, stubLog>>

----------------------------------------------------------------------------
(* Bounds *)

MaxModels == 2      \* longest collection passed as `models`
MaxNames == 2       \* longest sequence passed as names=
MaxPlots == 2       \* generate_subplots calls explored
MaxGens == 2        \* predict invocations explored
MaxStops == 2       \* StopIterations one consumer collects from a generator
MaxStubCalls == 3   \* stub invocations explored

(* Program constant: the fold count of line 142 *)
CV == 12

----------------------------------------------------------------------------
(* Python objects *)

BothCaps == {"fit", "predict"}

\* A python object: its class, the attributes it exposes among fit/predict,
\* whether iter() works on it, and the elements iteration produces.
Obj(id, cls, attrs, iterable, items) ==
    [id |-> id, cls |-> cls, attrs |-> attrs, iterable |-> iterable, items |-> items]

NoObj == Obj(0, "NoneType", {}, FALSE, <<>>)

Estimators == { Obj(1, "Ridge", BothCaps, FALSE, <<>>),
                Obj(2, "SVC", BothCaps, FALSE, <<>>) }

\* an object with fit but no predict, not iterable (a bare transformer)
Transformer == Obj(3, "StandardScaler", {"fit"}, FALSE, <<>>)

SeqsUpTo(S, n) == UNION { [1..k -> S] : k \in 0..n }

\* plain lists of estimators
Lists == { Obj(4, "list", {}, TRUE, s) : s \in SeqsUpTo(Estimators, MaxModels) }

\* ensemble estimators: expose fit and predict and iterate over sub-estimators
Ensembles == { Obj(5, "BaggingRegressor", BothCaps, TRUE, s) :
                  s \in SeqsUpTo(Estimators, MaxModels) }

ModelInputs == Estimators \cup {Transformer} \cup Lists \cup Ensembles

NameStrings == {"A", "B"}

\* **kwargs restricted to the one key __init__ reads
Kwargs(has, ns) == [hasNames |-> has, names |-> ns]
NoKwargs == Kwargs(FALSE, <<>>)
KwargsInputs == {NoKwargs} \cup { Kwargs(TRUE, s) : s \in SeqsUpTo(NameStrings, MaxNames) }

----------------------------------------------------------------------------
(* .utils helpers *)

isestimator(model) == BothCaps \subseteq model.attrs

get_model_name(model) == model.cls

----------------------------------------------------------------------------
(* MultiModelMixin.__init__ *)

\* variant: the isestimator branch is missing, nothing is wrapped
NormalizeModels_NoWrap(m) == m.items

\* variant: an empty collection is wrapped like a single estimator
NormalizeModels_WrapEmpty(m) ==
    IF isestimator(m) \/ m.items = <<>> THEN <<m>> ELSE m.items

\* lines 122-126: the value bound to self.models, as the sequence it iterates as
NormalizeModels(m) ==
    IF isestimator(m) THEN <<m>> ELSE m.items

\* line 127: list(map(get_model_name, models)) is evaluated before pop() is
\* called, so iterating `models` happens whether or not names= is given
CtorRaises(m) == ~isestimator(m) /\ ~m.iterable

DefaultNames(ms) == [i \in 1..Len(ms) |-> get_model_name(ms[i])]

\* variant: supplied names are used only when their count matches the models
DeriveNames_Validated(ms, kw) ==
    IF kw.hasNames /\ Len(kw.names) = Len(ms) THEN kw.names ELSE DefaultNames(ms)

DeriveNames(ms, kw) ==
    IF kw.hasNames THEN kw.names ELSE DefaultNames(ms)

Construct(m, kw) ==
    /\ status = "new"
    /\ argModels' = m
    /\ argKwargs' = kw
    /\ IF CtorRaises(m)
       THEN /\ status' = "raised"
            /\ ctorError' = "TypeError"
            /\ UNCHANGED <<models, names>>
       ELSE /\ status' = "constructed"
            /\ ctorError' = "none"
            /\ models' = NormalizeModels(m)
            /\ names' = DeriveNames(NormalizeModels(m), kw)
    /\ UNCHANGED <<figs, subplots, gens, cvCalls, stubLog>>

ConstructAny == \E m \in ModelInputs, kw \in KwargsInputs : Construct(m, kw)

\* construction without the names option; predict never reads self.names
ConstructDefault == \E m \in ModelInputs : Construct(m, NoKwargs)

----------------------------------------------------------------------------
(* MultiModelMixin.generate_subplots *)

Axes(fig, row, sharex, sharey) ==
    [fig |-> fig, row |-> row, sharex |-> sharex, sharey |-> sharey]

\* matplotlib.pyplot.subplots(nrows, sharex=, sharey=) with its defaults
\* ncols=1, squeeze=True, on the figure it has just allocated: the second
\* element of the returned pair.  A single subplot is returned as the bare
\* Axes object ("scalar"), several as an array of Axes ("array"); a row count
\* below one is rejected.
plt_subplots(nrows, sharex, sharey, fig) ==
    IF nrows < 1
    THEN [kind |-> "raised", error |-> "ValueError", axes |-> <<>>]
    ELSE IF nrows = 1
    THEN [kind |-> "scalar", error |-> "none",
          axes |-> <<Axes(fig, 1, sharex, sharey)>>]
    ELSE [kind |-> "array", error |-> "none",
          axes |-> [i \in 1..nrows |-> Axes(fig, i, sharex, sharey)]]

\* lines 133-134
generate_subplots ==
    /\ status = "constructed"
    /\ Len(subplots) < MaxPlots
    /\ figs' = figs + 1
    /\ subplots' = Append(subplots, plt_subplots(Len(models), TRUE, TRUE, figs + 1))
    /\ UNCHANGED <<status, argModels, argKwargs, ctorError, models, names,
                   gens, cvCalls, stubLog>>

----------------------------------------------------------------------------
(* MultiModelMixin.predict *)

Xs == {"X1", "X2"}
Ys == {"y1"}

NoValue == [est |-> NoObj, X |-> "", y |-> "", cv |-> 0]
NoResult == [raised |-> FALSE, error |-> "none", value |-> NoValue]

\* a model/dataset incompatibility: the SVC estimator cannot be fitted on X2
Incompatible(model, X, y) == model.cls = "SVC" /\ X = "X2"

\* sklearn's cross_val_predict, a deterministic function of its arguments
\* that either returns the prediction array or raises
cvp(model, X, y, cv) ==
    IF Incompatible(model, X, y)
    THEN [raised |-> TRUE, error |-> "ValueError", value |-> NoValue]
    ELSE [raised |-> FALSE, error |-> "none",
          value |-> [est |-> model, X |-> X, y |-> y, cv |-> cv]]

\* variant: the models are visited last to first
ModelAt_Reversed(ms, i) == ms[Len(ms) - i]

\* line 141: the model the for loop takes after i models have been taken
ModelAt(ms, i) == ms[i + 1]

\* line 142: the arguments of the cross_val_predict call
CvArgs(model, X, y) == [model |-> model, X |-> X, y |-> y, cv |-> CV]

\* variant: the function is not a generator, its body runs when it is called
PredictCalls_Eager(ms, X, y) ==
    [j \in 1..Len(ms) |-> CvArgs(ms[j], X, y)]

\* lines 136-142: the cross_val_predict calls made by the call predict(X, y)
\* itself.  The body contains yield, so the call only builds the generator
\* object and the body does not run before the first next().
PredictCalls(ms, X, y) == <<>>

\* the generator object as predict returns it, with its consumer's view of it
NewGen(X, y) ==
    [st |-> "created", X |-> X, y |-> y, i |-> 0, pending |-> NoResult,
     got |-> <<>>, exc |-> "none", reqs |-> 0, stops |-> 0]

predict ==
    /\ status = "constructed"
    /\ Len(gens) < MaxGens
    /\ \E X \in Xs, y \in Ys :
          /\ gens' = Append(gens, NewGen(X, y))
          /\ cvCalls' = Append(cvCalls, PredictCalls(models, X, y))
    /\ UNCHANGED <<status, argModels, argKwargs, ctorError, models, names,
                   figs, subplots, stubLog>>

\* one thread: nothing else runs while a cross_val_predict call is in progress
Idle == \A k \in 1..Len(gens) : gens[k].st # "running"

\* variant: a call already made with the same arguments is not made again
LogCall_Cached(log, k, args) ==
    IF \E g \in 1..Len(log) : \E j \in 1..Len(log[g]) : log[g][j] = args
    THEN log
    ELSE [log EXCEPT ![k] = Append(@, args)]

\* line 142: every evaluation of the yield expression calls cross_val_predict
LogCall(log, k, args) == [log EXCEPT ![k] = Append(@, args)]

\* next(g) on a generator that has not finished: the body runs up to the
\* cross_val_predict call of the next model, or falls off the end of the loop
next_call(k) ==
    /\ Idle
    /\ gens[k].st \in {"created", "suspended"}
    /\ IF gens[k].i < Len(models)
       THEN LET args == CvArgs(ModelAt(models, gens[k].i), gens[k].X, gens[k].y)
            IN /\ cvCalls' = LogCall(cvCalls, k, args)
               /\ gens' = [gens EXCEPT ![k].st = "running",
                                        ![k].i = @ + 1,
                                        ![k].reqs = @ + 1,
                                        ![k].pending =
                                            cvp(args.model, args.X, args.y, args.cv)]
       ELSE /\ gens' = [gens EXCEPT ![k].st = "closed",
                                     ![k].reqs = @ + 1,
                                     ![k].stops = @ + 1]
            /\ UNCHANGED cvCalls
    /\ UNCHANGED <<status, argModels, argKwargs, ctorError, models, names,
                   figs, subplots, stubLog>>

\* variant: a failing model is skipped and the loop goes on
OnCvResult_Swallow(g) ==
    IF g.pending.raised
    THEN [g EXCEPT !.st = "suspended", !.pending = NoResult]
    ELSE [g EXCEPT !.st = "suspended", !.pending = NoResult,
                   !.got = Append(@, g.pending.value)]

\* line 142: cross_val_predict returns and its value is yielded to the
\* consumer, or it raises and the exception leaves the generator, which is
\* then finished
OnCvResult(g) ==
    IF g.pending.raised
    THEN [g EXCEPT !.st = "closed", !.pending = NoResult,
                   !.exc = g.pending.error]
    ELSE [g EXCEPT !.st = "suspended", !.pending = NoResult,
                   !.got = Append(@, g.pending.value)]

cvp_done(k) ==
    /\ gens[k].st = "running"
    /\ gens' = [gens EXCEPT ![k] = OnCvResult(gens[k])]
    /\ UNCHANGED <<status, argModels, argKwargs, ctorError, models, names,
                   figs, subplots, cvCalls, stubLog>>

\* next(g) on a finished generator raises StopIteration
next_closed(k) ==
    /\ Idle
    /\ gens[k].st = "closed"
    /\ gens[k].stops < MaxStops
    /\ gens' = [gens EXCEPT ![k].reqs = @ + 1, ![k].stops = @ + 1]
    /\ UNCHANGED <<status, argModels, argKwargs, ctorError, models, names,
                   figs, subplots, cvCalls, stubLog>>

----------------------------------------------------------------------------
(* Base-class stubs *)

Stubs == { <<"BaseVisualization", "render">>,
           <<"FeatureVisualization", "fit">>,
           <<"FeatureVisualization", "transform">>,
           <<"FeatureVisualization", "render">>,
           <<"ModelVisualization", "fit">>,
           <<"ModelVisualization", "predict">>,
           <<"ModelVisualization", "render">> }

\* what a call of the method as defined on the class ends in: the exception
\* it raises, or "None" when the body is `pass` and the call returns None
StubOutcome(cls, method) ==
    CASE cls = "BaseVisualization" /\ method = "render" -> "NotImplementedError"
      [] cls = "FeatureVisualization" /\ method = "fit" -> "None"
      [] cls = "FeatureVisualization" /\ method = "transform" -> "None"
      [] cls = "FeatureVisualization" /\ method = "render" -> "NotImplementedError"
      [] cls = "ModelVisualization" /\ method = "fit" -> "None"
      [] cls = "ModelVisualization" /\ method = "predict" -> "None"
      [] cls = "ModelVisualization" /\ method = "render" -> "NotImplementedError"

CallStub ==
    /\ Len(stubLog) < MaxStubCalls
    /\ \E s \in Stubs :
          stubLog' = Append(stubLog, [cls |-> s[1], method |-> s[2],
                                      outcome |-> StubOutcome(s[1], s[2])])
    /\ UNCHANGED <<status, argModels, argKwargs, ctorError, models, names,
                   figs, subplots, gens, cvCalls>>

----------------------------------------------------------------------------
Init ==
    /\ status = "new"
    /\ argModels = NoObj
    /\ argKwargs = NoKwargs
    /\ ctorError = "none"
    /\ models = <<>>
    /\ names = <<>>
    /\ figs = 0
    /\ subplots = <<>>
    /\ gens = <<>>
    /\ cvCalls = <<>>
    /\ stubLog = <<>>

SpecCtor == Init /\ [][ConstructAny]_vars

NextPlots == ConstructAny \/ generate_subplots
SpecPlots == Init /\ [][NextPlots]_vars

NextPredict ==
    \/ ConstructDefault
    \/ predict
    \/ \E k \in 1..Len(gens) : next_call(k)
    \/ \E k \in 1..Len(gens) : cvp_done(k)
    \/ \E k \in 1..Len(gens) : next_closed(k)
SpecPredict == Init /\ [][NextPredict]_vars

SpecStubs == Init /\ [][CallStub]_vars

----------------------------------------------------------------------------
(* Construction claims *)

Constructed == status = "constructed"

\* C1: construction normalizes `models`: a single object exposing fit and
\* predict becomes the one-element sequence holding exactly that object; a
\* collection of N >= 1 models that is not itself an estimator is kept
\* unchanged (same elements, same order, same length).
C1_Normalization ==
    Constructed =>
        /\ (BothCaps \subseteq argModels.attrs) => models = <<argModels>>
        /\ (~(BothCaps \subseteq argModels.attrs) /\ Len(argModels.items) >= 1)
              => models = argModels.items

C1_Witness ==
    /\ Constructed
    /\ argModels \in Ensembles
    /\ Len(argModels.items) = 2
    /\ models = <<argModels>>

\* C2: a supplied names option is used verbatim, whatever its length, and
\* never makes construction fail; without it names[i] is the class
\* identifier of models[i] for every index of models.
C2_NameDerivation ==
    /\ Constructed /\ argKwargs.hasNames => names = argKwargs.names
    /\ Constructed /\ ~argKwargs.hasNames =>
          /\ Len(names) = Len(models)
          /\ \A i \in 1..Len(models) : names[i] = models[i].cls
    /\ status = "raised" =>
          /\ ~argModels.iterable
          /\ ~(BothCaps \subseteq argModels.attrs)
    /\ (status # "new" /\ (argModels.iterable \/ BothCaps \subseteq argModels.attrs))
          => Constructed

C2_Witness ==
    /\ Constructed
    /\ argKwargs.hasNames
    /\ Len(argKwargs.names) = 1
    /\ Len(models) = 2
    /\ names = argKwargs.names

\* C3: after construction names and models have the same length.
C3_NamesAligned == Constructed => Len(names) = Len(models)

\* C4 as stated: every constructed adapter, the one built from an empty
\* collection included, has at least one model.
C4_NonEmpty == Constructed => Len(models) >= 1

\* C4 amended: a single estimator gives exactly one model, a collection that
\* is not an estimator gives as many models as it has elements, so models is
\* empty exactly when the input is an empty non-estimator collection.
C4_LengthFollowsInput ==
    Constructed =>
        /\ (BothCaps \subseteq argModels.attrs) => Len(models) = 1
        /\ ~(BothCaps \subseteq argModels.attrs) => Len(models) = Len(argModels.items)
        /\ (Len(models) = 0) <=>
              (~(BothCaps \subseteq argModels.attrs) /\ argModels.items = <<>>)

C4_Witness ==
    /\ Constructed
    /\ argModels \in Lists
    /\ argModels.items = <<>>
    /\ models = <<>>

----------------------------------------------------------------------------
(* Display surfaces and stubs *)

\* C5: on an adapter holding N >= 1 models, N = 1 included, every
\* generate_subplots call returns a sequence of exactly N handles, handle i
\* being the surface of models[i], all requested with shared x and y axes.
C5_OneHandlePerModel ==
    \A k \in 1..Len(subplots) :
        Len(models) >= 1 =>
            /\ subplots[k].kind = "array"
            /\ Len(subplots[k].axes) = Len(models)
            /\ \A i \in 1..Len(models) :
                  /\ subplots[k].axes[i].row = i
                  /\ subplots[k].axes[i].sharex
                  /\ subplots[k].axes[i].sharey

\* C9: every call of a base-class stub ends in NotImplementedError.
C9_StubsRaise ==
    \A k \in 1..Len(stubLog) : stubLog[k].outcome = "NotImplementedError"

----------------------------------------------------------------------------
(* Prediction claims *)

Min(a, b) == IF a < b THEN a ELSE b

\* the cross_val_predict calls made on behalf of generator k, in call order
CallsOf(k) == cvCalls[k]

\* the consumer of generator k has iterated it to its end without an error
Exhausted(k) == gens[k].st = "closed" /\ gens[k].exc = "none"

\* C6: a fully iterated predict(X, y) has yielded exactly one result per
\* model; result i is the output of cross_val_predict(models[i], X, y, 12);
\* the routine was called once per model, in the order of models.
C6_OneResultPerModel ==
    \A k \in 1..Len(gens) :
        Exhausted(k) =>
            /\ Len(gens[k].got) = Len(models)
            /\ \A j \in 1..Len(models) :
                  gens[k].got[j] = cvp(models[j], gens[k].X, gens[k].y, 12).value
            /\ CallsOf(k) =
                  [j \in 1..Len(models) |->
                      [model |-> models[j], X |-> gens[k].X,
                       y |-> gens[k].y, cv |-> 12]]

C6_Witness ==
    \E k \in 1..Len(gens) :
        /\ Exhausted(k)
        /\ Len(models) = 2
        /\ models[1] # models[2]
        /\ Len(gens[k].got) = 2

\* C7: the sequence is pull-driven: invoking predict calls the routine not at
\* all; while no error has occurred, after k requests (k <= N) the routine
\* has been called exactly k times, on the first k models; the call for a
\* model is in progress only when the results of all models before it have
\* been delivered.
C7_PullDriven ==
    \A k \in 1..Len(gens) :
        /\ gens[k].st = "created" => CallsOf(k) = <<>>
        /\ gens[k].exc = "none" =>
              /\ Len(CallsOf(k)) = Min(gens[k].reqs, Len(models))
              /\ \A j \in 1..Len(CallsOf(k)) : CallsOf(k)[j].model = models[j]
        /\ gens[k].st = "running" => Len(gens[k].got) = Len(CallsOf(k)) - 1
        /\ gens[k].st = "suspended" => Len(gens[k].got) = Len(CallsOf(k))

C7_Witness ==
    \E k \in 1..Len(gens) :
        /\ Len(models) = 2
        /\ gens[k].st = "running"
        /\ gens[k].reqs = 2
        /\ Len(gens[k].got) = 1
        /\ Len(CallsOf(k)) = 2

\* the call number j of generator k has completed by raising
FailedCall(k, j) ==
    /\ j \in 1..Len(CallsOf(k))
    /\ ~(gens[k].st = "running" /\ j = Len(CallsOf(k)))
    /\ LET a == CallsOf(k)[j] IN cvp(a.model, a.X, a.y, a.cv).raised

ErrorOfCall(k, j) ==
    LET a == CallsOf(k)[j] IN cvp(a.model, a.X, a.y, a.cv).error

\* C8 as stated: when cross_val_predict raises for models[i] the caller gets
\* that error, no further model is processed, and the caller has received
\* none of the results of the models before models[i].
C8_NoPartialResults ==
    \A k \in 1..Len(gens) : \A j \in 1..Len(CallsOf(k)) :
        FailedCall(k, j) =>
            /\ gens[k].exc = ErrorOfCall(k, j)
            /\ Len(CallsOf(k)) = j
            /\ gens[k].got = <<>>

\* C8 amended: when cross_val_predict raises for models[i] the caller gets
\* that error unmodified, the generator is finished and no further model is
\* processed however often the caller asks again, and the caller has by then
\* received exactly the results of the models before models[i], in order.
C8_ErrorEndsSequence ==
    \A k \in 1..Len(gens) : \A j \in 1..Len(CallsOf(k)) :
        FailedCall(k, j) =>
            /\ gens[k].exc = ErrorOfCall(k, j)
            /\ gens[k].st = "closed"
            /\ Len(CallsOf(k)) = j
            /\ CallsOf(k)[j].model = models[j]
            /\ Len(gens[k].got) = j - 1
            /\ \A h \in 1..(j - 1) :
                  gens[k].got[h] = cvp(models[h], gens[k].X, gens[k].y, 12).value

C8_Witness ==
    \E k \in 1..Len(gens) :
        /\ FailedCall(k, 2)
        /\ gens[k].exc = "ValueError"
        /\ Len(gens[k].got) = 1
        /\ gens[k].stops >= 1

\* C10: predict keeps no cache and every invocation is its own single-pass
\* sequence: two fully iterated invocations with the same (X, y) have yielded
\* the same sequence, each made its own N routine calls (2N together), and
\* asking an exhausted sequence again yields nothing more.
C10_NoCache ==
    /\ \A k1 \in 1..Len(gens) : \A k2 \in 1..Len(gens) :
          (/\ k1 < k2
           /\ Exhausted(k1) /\ Exhausted(k2)
           /\ gens[k1].X = gens[k2].X /\ gens[k1].y = gens[k2].y) =>
              /\ gens[k1].got = gens[k2].got
              /\ Len(CallsOf(k1)) = Len(models)
              /\ Len(CallsOf(k2)) = Len(models)
              /\ Len(CallsOf(k1) \o CallsOf(k2)) = 2 * Len(models)
              /\ CallsOf(k1) = CallsOf(k2)
    /\ \A k \in 1..Len(gens) :
          (Exhausted(k) /\ gens[k].stops > 1) =>
              /\ Len(gens[k].got) = Len(models)
              /\ Len(CallsOf(k)) = Len(models)
              /\ gens[k].reqs = Len(models) + gens[k].stops

C10_Witness ==
    /\ Len(gens) >= 2
    /\ Len(models) = 2
    /\ Exhausted(1) /\ Exhausted(2)
    /\ gens[1].X = gens[2].X
    /\ gens[1].stops = 2
    /\ gens[1].got = gens[2].got
    /\ Len(CallsOf(1)) = 2 /\ Len(CallsOf(2)) = 2

====
